---------------------------- MODULE Spec2Model ----------------------------
(***************************************************************************)
(* Model of collections/userproperties.py: UserProperties, a mutable       *)
(* mapping cached in memory (__properties__) and persisted as JSON text in *)
(* the "notes" attribute of a Maya dependency node.                        *)
(*                                                                         *)
(* A key is a pair <<type, text>>: <<"str", "1">> is the Python string     *)
(* "1" and <<"int", "1">> the Python integer 1.  A dict is the sequence of *)
(* its entries in insertion order, keys unique.  The text of the notes     *)
(* attribute is the empty string, a text that is no JSON, or a JSON object *)
(* given by the sequence of its members; json.dumps writes every key as a  *)
(* string and json.loads keeps the last of several members with one key.   *)
(* Values are small integers, which JSON writes and reads back unchanged;  *)
(* the indentation json.dumps adds is white space json.loads skips.  A     *)
(* JSON text that is no object (a number, a list) is not among the texts.  *)
(***************************************************************************)
EXTENDS Integers, Sequences, FiniteSets

VARIABLES
    hasAttr,  \* the node has a "notes" attribute
    notes,    \* the text of the attribute (EmptyText while it does not exist)
    locked,   \* the node is locked (mc.lockNode)
    alive,    \* the stores that have been constructed
    props,    \* props[s]: the __properties__ of store s
    last      \* the last call: what was called, how it ended, the state before it

vars == <<hasAttr, notes, locked, alive, props, last>>

-----------------------------------------------------------------------------
(* Bounds *)

MaxLen == 2      \* a store is given at most MaxLen entries

Stores == {"A"}
Keys == {<<"str", "a">>, <<"str", "1">>, <<"int", "1">>}
StrKeys == {k \in Keys : k[1] = "str"}
Values == {1, 2}
NoKey == <<"none", "">>

-----------------------------------------------------------------------------
(* Python dict, as the sequence of its entries *)

Entry(k, v) == [key |-> k, val |-> v]

DictKeys(d) == {d[i].key : i \in 1..Len(d)}

DictHas(d, k) == k \in DictKeys(d)

DictIndex(d, k) == CHOOSE i \in 1..Len(d) : d[i].key = k

DictGet(d, k) == d[DictIndex(d, k)].val

DictSet(d, k, v) ==
    IF DictHas(d, k)
    THEN [d EXCEPT ![DictIndex(d, k)] = Entry(k, v)]
    ELSE Append(d, Entry(k, v))

DictDel(d, k) ==
    LET i == DictIndex(d, k)
    IN  SubSeq(d, 1, i - 1) \o SubSeq(d, i + 1, Len(d))

RECURSIVE DictUpdate(_, _)
DictUpdate(d, its) ==
    IF its = <<>>
    THEN d
    ELSE DictUpdate(DictSet(d, Head(its).key, Head(its).val), Tail(its))

\* Python's dict equality: the same keys with the same values, in any order.
DictEq(a, b) ==
    /\ DictKeys(a) = DictKeys(b)
    /\ \A k \in DictKeys(a) : DictGet(a, k) = DictGet(b, k)

-----------------------------------------------------------------------------
(* The text of the attribute, and the JSON codec *)

EmptyText == [kind |-> "empty", members |-> <<>>]
CorruptText == [kind |-> "corrupt", members |-> <<>>]
JsonText(m) == [kind |-> "json", members |-> m]

IsNullOrEmpty(buffer) == buffer.kind = "empty"

\* json.dumps writes a key of a dict as a string: the integer 1 becomes "1".
JsonKey(k) == <<"str", k[2]>>

JsonDumps(d) == JsonText([i \in 1..Len(d) |-> Entry(JsonKey(d[i].key), d[i].val)])

\* json.loads raises JSONDecodeError on a text that is no JSON.
JsonDecodes(buffer) == buffer.kind = "json"

JsonLoads(buffer) == DictUpdate(<<>>, buffer.members)

-----------------------------------------------------------------------------
(* The host node: [has, notes] *)

Node == [has |-> hasAttr, notes |-> notes]

\* mc.getAttr: ValueError when the attribute does not exist.
GetAttr(n) ==
    IF n.has
    THEN [res |-> "ok", text |-> n.notes]
    ELSE [res |-> "ValueError", text |-> EmptyText]

\* mc.setAttr: fails when the attribute does not exist.
SetAttr(n, text) ==
    IF n.has
    THEN [node |-> [has |-> TRUE, notes |-> text], res |-> "ok"]
    ELSE [node |-> n, res |-> "RuntimeError"]

\* ensureNotes() that does not ask whether the node is locked.
ensureNotesAnyway(n, lk) ==
    IF ~n.has
    THEN [has |-> TRUE, notes |-> EmptyText]
    ELSE n

ensureNotes(n, lk) ==
    IF ~n.has /\ ~lk
    THEN [has |-> TRUE, notes |-> EmptyText]
    ELSE n

\* invalidate() without its redundancy check: an empty dict is written too.
invalidateAlways(d, n, lk) == SetAttr(ensureNotes(n, lk), JsonDumps(d))

\* invalidate() that patches the old notes instead of replacing them.
invalidateMerge(d, n, lk) ==
    IF Len(d) = 0
    THEN [node |-> n, res |-> "ok"]
    ELSE LET n1 == ensureNotes(n, lk)
             old == IF JsonDecodes(n1.notes) THEN JsonLoads(n1.notes) ELSE <<>>
         IN  SetAttr(n1, JsonDumps(DictUpdate(old, d)))

invalidate(d, n, lk) ==
    IF Len(d) = 0
    THEN [node |-> n, res |-> "ok"]
    ELSE SetAttr(ensureNotes(n, lk), JsonDumps(d))

tryGetBuffer(n) ==
    IF GetAttr(n).res = "ValueError" THEN EmptyText ELSE GetAttr(n).text

\* setBuffer() that keeps the dict it had when the text does not decode.
setBufferKeep(d, buffer, n, lk) ==
    IF IsNullOrEmpty(buffer)
    THEN [props |-> d, node |-> n, res |-> "ok"]
    ELSE LET n1 == ensureNotes(n, lk)
             d1 == IF JsonDecodes(buffer) THEN JsonLoads(buffer) ELSE d
             r  == invalidate(d1, n1, lk)
         IN  [props |-> d1, node |-> r.node, res |-> r.res]

\* setBuffer() that ensures the attribute before it looks at the buffer.
setBufferEnsureFirst(d, buffer, n, lk) ==
    LET n1 == ensureNotes(n, lk)
    IN  IF IsNullOrEmpty(buffer)
        THEN [props |-> d, node |-> n1, res |-> "ok"]
        ELSE LET d1 == IF JsonDecodes(buffer) THEN JsonLoads(buffer) ELSE <<>>
                 r  == invalidate(d1, n1, lk)
             IN  [props |-> d1, node |-> r.node, res |-> r.res]

\* setBuffer() that writes the dict it had back before it takes the new one.
setBufferFlushFirst(d, buffer, n, lk) ==
    IF IsNullOrEmpty(buffer)
    THEN [props |-> d, node |-> n, res |-> "ok"]
    ELSE LET n1 == ensureNotes(n, lk)
             d1 == IF JsonDecodes(buffer) THEN JsonLoads(buffer) ELSE <<>>
             r  == invalidate(d, n1, lk)
         IN  [props |-> d1, node |-> r.node, res |-> r.res]

\* setBuffer() that empties the dict when the buffer is empty.
setBufferClear(d, buffer, n, lk) ==
    IF IsNullOrEmpty(buffer)
    THEN [props |-> <<>>, node |-> n, res |-> "ok"]
    ELSE LET n1 == ensureNotes(n, lk)
             d1 == IF JsonDecodes(buffer) THEN JsonLoads(buffer) ELSE <<>>
             r  == invalidate(d1, n1, lk)
         IN  [props |-> d1, node |-> r.node, res |-> r.res]

\* setBuffer() that adds what it decodes to the dict it had.
setBufferMerge(d, buffer, n, lk) ==
    IF IsNullOrEmpty(buffer)
    THEN [props |-> d, node |-> n, res |-> "ok"]
    ELSE LET n1 == ensureNotes(n, lk)
             d1 == IF JsonDecodes(buffer) THEN DictUpdate(d, JsonLoads(buffer)) ELSE <<>>
             r  == invalidate(d1, n1, lk)
         IN  [props |-> d1, node |-> r.node, res |-> r.res]

\* setBuffer() that writes an empty object over a text that does not decode.
setBufferHeal(d, buffer, n, lk) ==
    IF IsNullOrEmpty(buffer)
    THEN [props |-> d, node |-> n, res |-> "ok"]
    ELSE LET n1 == ensureNotes(n, lk)
         IN  IF JsonDecodes(buffer)
             THEN LET r == invalidate(JsonLoads(buffer), n1, lk)
                  IN  [props |-> JsonLoads(buffer), node |-> r.node, res |-> r.res]
             ELSE LET r == SetAttr(n1, JsonDumps(<<>>))
                  IN  [props |-> <<>>, node |-> r.node, res |-> r.res]

setBuffer(d, buffer, n, lk) ==
    IF IsNullOrEmpty(buffer)
    THEN [props |-> d, node |-> n, res |-> "ok"]
    ELSE LET n1 == ensureNotes(n, lk)
             d1 == IF JsonDecodes(buffer) THEN JsonLoads(buffer) ELSE <<>>
             r  == invalidate(d1, n1, lk)
         IN  [props |-> d1, node |-> r.node, res |-> r.res]

reload(d, n, lk) == setBuffer(d, tryGetBuffer(n), n, lk)

-----------------------------------------------------------------------------
(* The record of a call *)

Call(op, s, k, v, its, res, ret) ==
    [op |-> op, s |-> s, key |-> k, val |-> v, items |-> its,
     res |-> res, ret |-> ret,
     pre |-> props[s], preProps |-> props, preAlive |-> s \in alive,
     preHas |-> hasAttr, preNotes |-> notes, preLocked |-> locked]

\* The texts another author leaves on the node: nothing, a text that is no
\* JSON, or a JSON object of no or one member, whose name is a string.
InitTexts ==
    {EmptyText, CorruptText, JsonText(<<>>)}
        \cup {JsonText(<<Entry(k, v)>>) : k \in StrKeys, v \in Values}

\* The dicts update() is called with: empty, one entry, or the integer 1 and
\* the string "1" together.
UpdateItems ==
    {<<>>} \cup {<<Entry(k, v)>> : k \in Keys, v \in Values}
        \cup {<<Entry(<<"int", "1">>, 1), Entry(<<"str", "1">>, 2)>>}

Init ==
    /\ hasAttr \in BOOLEAN
    /\ notes \in InitTexts
    /\ (~hasAttr => notes = EmptyText)
    /\ locked \in BOOLEAN
    /\ alive = {}
    /\ props = [s \in Stores |-> <<>>]
    /\ last = [op |-> "none", s |-> "A", key |-> NoKey, val |-> 0, items |-> <<>>,
               res |-> "ok", ret |-> <<>>,
               pre |-> <<>>, preProps |-> props, preAlive |-> FALSE,
               preHas |-> hasAttr, preNotes |-> notes, preLocked |-> locked]

SetNode(n) ==
    /\ hasAttr' = n.has
    /\ notes' = n.notes

\* __init__: an empty dict, then reload().
Construct(s) ==
    LET r == reload(<<>>, Node, locked)
    IN  /\ alive' = alive \cup {s}
        /\ props' = [props EXCEPT ![s] = r.props]
        /\ SetNode(r.node)
        /\ last' = Call("construct", s, NoKey, 0, <<>>, r.res, <<>>)
        /\ UNCHANGED locked

\* __getitem__ that writes the dict back after reading it.
GetItemFlush(s, k) ==
    LET r == invalidate(props[s], Node, locked)
    IN  /\ s \in alive
        /\ SetNode(r.node)
        /\ last' = IF DictHas(props[s], k)
                   THEN Call("get", s, k, 0, <<>>, "ok", <<DictGet(props[s], k)>>)
                   ELSE Call("get", s, k, 0, <<>>, "KeyError", <<>>)
        /\ UNCHANGED <<locked, alive, props>>

\* __getitem__: KeyError when the key is not in the dict.
GetItem(s, k) ==
    /\ s \in alive
    /\ last' = IF DictHas(props[s], k)
               THEN Call("get", s, k, 0, <<>>, "ok", <<DictGet(props[s], k)>>)
               ELSE Call("get", s, k, 0, <<>>, "KeyError", <<>>)
    /\ UNCHANGED <<hasAttr, notes, locked, alive, props>>

\* Mapping.__contains__: __getitem__, with KeyError read as False.
Contains(s, k) ==
    /\ s \in alive
    /\ last' = Call("contains", s, k, 0, <<>>, "ok", <<DictHas(props[s], k)>>)
    /\ UNCHANGED <<hasAttr, notes, locked, alive, props>>

\* __setitem__ on a dict that belongs to the class and not to the instance:
\* every store over the node sees the entry.
SetItemShared(s, k, v) ==
    LET d == DictSet(props[s], k, v)
        r == invalidate(d, Node, locked)
    IN  /\ s \in alive
        /\ Len(d) <= MaxLen
        /\ props' = [o \in DOMAIN props |-> IF o \in alive THEN d ELSE props[o]]
        /\ SetNode(r.node)
        /\ last' = Call("set", s, k, v, <<>>, r.res, <<>>)
        /\ UNCHANGED <<locked, alive>>

\* __setitem__: the dict is updated, then invalidate().
SetItem(s, k, v) ==
    LET d == DictSet(props[s], k, v)
        r == invalidate(d, Node, locked)
    IN  /\ s \in alive
        /\ Len(d) <= MaxLen
        /\ props' = [props EXCEPT ![s] = d]
        /\ SetNode(r.node)
        /\ last' = Call("set", s, k, v, <<>>, r.res, <<>>)
        /\ UNCHANGED <<locked, alive>>

\* __delitem__ written as pop(key, None): a missing key is passed over and
\* invalidate() runs all the same.
DelItemPop(s, k) ==
    LET d == IF DictHas(props[s], k) THEN DictDel(props[s], k) ELSE props[s]
        r == invalidate(d, Node, locked)
    IN  /\ s \in alive
        /\ props' = [props EXCEPT ![s] = d]
        /\ SetNode(r.node)
        /\ last' = Call("delete", s, k, 0, <<>>, r.res, <<>>)
        /\ UNCHANGED <<locked, alive>>

\* __delitem__: KeyError when the key is not in the dict, else invalidate().
DelItem(s, k) ==
    /\ s \in alive
    /\ IF DictHas(props[s], k)
       THEN LET d == DictDel(props[s], k)
                r == invalidate(d, Node, locked)
            IN  /\ props' = [props EXCEPT ![s] = d]
                /\ SetNode(r.node)
                /\ last' = Call("delete", s, k, 0, <<>>, r.res, <<>>)
       ELSE /\ last' = Call("delete", s, k, 0, <<>>, "KeyError", <<>>)
            /\ UNCHANGED <<hasAttr, notes, props>>
    /\ UNCHANGED <<locked, alive>>

\* __len__
LenOf(s) ==
    /\ s \in alive
    /\ last' = Call("len", s, NoKey, 0, <<>>, "ok", <<Len(props[s])>>)
    /\ UNCHANGED <<hasAttr, notes, locked, alive, props>>

\* __iter__ and keys(): the keys in the dict's order.
Iter(s) ==
    /\ s \in alive
    /\ last' = Call("iter", s, NoKey, 0, <<>>, "ok",
                    [i \in 1..Len(props[s]) |-> props[s][i].key])
    /\ UNCHANGED <<hasAttr, notes, locked, alive, props>>

KeysOf(s) ==
    /\ s \in alive
    /\ last' = Call("keys", s, NoKey, 0, <<>>, "ok",
                    [i \in 1..Len(props[s]) |-> props[s][i].key])
    /\ UNCHANGED <<hasAttr, notes, locked, alive, props>>

ValuesOf(s) ==
    /\ s \in alive
    /\ last' = Call("values", s, NoKey, 0, <<>>, "ok",
                    [i \in 1..Len(props[s]) |-> props[s][i].val])
    /\ UNCHANGED <<hasAttr, notes, locked, alive, props>>

ItemsOf(s) ==
    /\ s \in alive
    /\ last' = Call("items", s, NoKey, 0, <<>>, "ok", props[s])
    /\ UNCHANGED <<hasAttr, notes, locked, alive, props>>

\* update(items): dict.update, then invalidate().
Update(s, its) ==
    LET d == DictUpdate(props[s], its)
        r == invalidate(d, Node, locked)
    IN  /\ s \in alive
        /\ Len(d) <= MaxLen
        /\ props' = [props EXCEPT ![s] = d]
        /\ SetNode(r.node)
        /\ last' = Call("update", s, NoKey, 0, its, r.res, <<>>)
        /\ UNCHANGED <<locked, alive>>

EnsureNotes(s) ==
    /\ s \in alive
    /\ SetNode(ensureNotes(Node, locked))
    /\ last' = Call("ensureNotes", s, NoKey, 0, <<>>, "ok", <<>>)
    /\ UNCHANGED <<locked, alive, props>>

TryGetBuffer(s) ==
    /\ s \in alive
    /\ last' = Call("tryGetBuffer", s, NoKey, 0, <<>>, "ok", <<tryGetBuffer(Node)>>)
    /\ UNCHANGED <<hasAttr, notes, locked, alive, props>>

\* buffer() that answers '' where the attribute is missing, as tryGetBuffer() does.
BufferTolerant(s) ==
    /\ s \in alive
    /\ last' = Call("buffer", s, NoKey, 0, <<>>, "ok", <<tryGetBuffer(Node)>>)
    /\ UNCHANGED <<hasAttr, notes, locked, alive, props>>

\* buffer(): mc.getAttr, whose failure is not caught.
Buffer(s) ==
    /\ s \in alive
    /\ last' = IF GetAttr(Node).res = "ok"
               THEN Call("buffer", s, NoKey, 0, <<>>, "ok", <<GetAttr(Node).text>>)
               ELSE Call("buffer", s, NoKey, 0, <<>>, GetAttr(Node).res, <<>>)
    /\ UNCHANGED <<hasAttr, notes, locked, alive, props>>

SetBuffer(s, buf) ==
    LET r == setBuffer(props[s], buf, Node, locked)
    IN  /\ s \in alive
        /\ props' = [props EXCEPT ![s] = r.props]
        /\ SetNode(r.node)
        /\ last' = Call("setBuffer", s, NoKey, 0, buf.members, r.res, <<buf.kind>>)
        /\ UNCHANGED <<locked, alive>>

Reload(s) ==
    LET r == reload(props[s], Node, locked)
    IN  /\ s \in alive
        /\ props' = [props EXCEPT ![s] = r.props]
        /\ SetNode(r.node)
        /\ last' = Call("reload", s, NoKey, 0, <<>>, r.res, <<>>)
        /\ UNCHANGED <<locked, alive>>

Invalidate(s) ==
    LET r == invalidate(props[s], Node, locked)
    IN  /\ s \in alive
        /\ SetNode(r.node)
        /\ last' = Call("invalidate", s, NoKey, 0, <<>>, r.res, <<>>)
        /\ UNCHANGED <<locked, alive, props>>

\* The host locks or unlocks the node.
HostLock ==
    /\ locked' = ~locked
    /\ last' = Call("hostLock", "A", NoKey, 0, <<>>, "ok", <<>>)
    /\ UNCHANGED <<hasAttr, notes, alive, props>>

\* Another author (the user, another tool) writes the notes of the node,
\* adding the attribute first where the node has none and is not locked.
HostSetNotes(text) ==
    /\ hasAttr \/ ~locked
    /\ hasAttr' = TRUE
    /\ notes' = text
    /\ last' = Call("hostSetNotes", "A", NoKey, 0, text.members, "ok", <<text.kind>>)
    /\ UNCHANGED <<locked, alive, props>>

Next ==
    \/ HostLock
    \/ \E text \in InitTexts : HostSetNotes(text)
    \/ \E s \in Stores :
        \/ Construct(s)
        \/ Reload(s)
        \/ Invalidate(s)
        \/ EnsureNotes(s)
        \/ TryGetBuffer(s)
        \/ Buffer(s)
        \/ LenOf(s)
        \/ Iter(s)
        \/ KeysOf(s)
        \/ ValuesOf(s)
        \/ ItemsOf(s)
        \/ \E buf \in InitTexts : SetBuffer(s, buf)
        \/ \E its \in UpdateItems : Update(s, its)
        \/ \E k \in Keys :
            \/ GetItem(s, k)
            \/ Contains(s, k)
            \/ DelItem(s, k)
            \/ \E v \in Values : SetItem(s, k, v)

Spec == Init /\ [][Next]_vars

-----------------------------------------------------------------------------
(* Two stores over one node.  The node starts unlocked, without the         *)
(* attribute; each store is constructed, written through and reloaded.      *)

TwoStores == {"A", "B"}

\* The keys the two stores are written with: a string and an integer.
TwoKeys == {<<"str", "a">>, <<"int", "1">>}

InitTwo ==
    /\ hasAttr = FALSE
    /\ notes = EmptyText
    /\ locked = FALSE
    /\ alive = {}
    /\ props = [s \in TwoStores |-> <<>>]
    /\ last = [op |-> "none", s |-> "A", key |-> NoKey, val |-> 0, items |-> <<>>,
               res |-> "ok", ret |-> <<>>,
               pre |-> <<>>, preProps |-> props, preAlive |-> FALSE,
               preHas |-> hasAttr, preNotes |-> notes, preLocked |-> locked]

NextTwo ==
    \E s \in TwoStores :
        \/ Construct(s)
        \/ Reload(s)
        \/ Update(s, <<>>)
        \/ \E k \in TwoKeys :
            \/ DelItem(s, k)
            \/ \E v \in Values : SetItem(s, k, v)

SpecTwo == InitTwo /\ [][NextTwo]_vars

-----------------------------------------------------------------------------
(* What the claims speak of *)

Now == props[last.s]

NodeUntouched ==
    /\ hasAttr = last.preHas
    /\ notes = last.preNotes
    /\ locked = last.preLocked

MappingUntouched == Now = last.pre

\* The mapping a store constructed now over the node would hold.
FreshStore == reload(<<>>, Node, locked).props

\* The mapping the store would hold after reload().
Reloaded == reload(Now, Node, locked).props

Mutators == {"set", "delete", "update"}
Readers == {"get", "contains", "len", "iter", "keys", "values", "items"}

\* C1: after invalidate() has returned on a store whose mapping M holds
\* entries, keyed by strings or integers, a store constructed over the same
\* node holds a mapping equal to M, whatever the attribute held before.
C1_RoundTrip ==
    (last.op = "invalidate" /\ last.res = "ok" /\ Len(Now) > 0) => DictEq(FreshStore, Now)

\* C2: after delete(k) of a key the mapping M held, reload(), and likewise a
\* fresh store over the node, gives M without k.
C2_DeleteThenReload ==
    (last.op = "delete" /\ last.res = "ok")
        => /\ DictEq(Reloaded, DictDel(last.pre, last.key))
           /\ DictEq(FreshStore, DictDel(last.pre, last.key))

\* C3: after a store was constructed or reloaded over notes that do not
\* decode, the attribute is absent or no longer holds that text.
C3_CorruptTextReplaced ==
    (last.op \in {"construct", "reload"} /\ last.preHas /\ ~JsonDecodes(last.preNotes)
        /\ ~IsNullOrEmpty(last.preNotes))
        => (~hasAttr \/ notes # last.preNotes)

C5_EmptyNonClobber ==
    (last.op \in {"invalidate", "delete", "update"} /\ last.res # "KeyError" /\ Len(Now) = 0)
        => last.res = "ok" /\ NodeUntouched

\* C5 witness: invalidate() ran on an empty mapping over notes that hold a
\* JSON object with a member.
C5_Witness ==
    /\ last.op = "invalidate" /\ Len(last.pre) = 0
    /\ last.preHas /\ JsonDecodes(last.preNotes) /\ Len(last.preNotes.members) > 0

\* C6: get(k) and delete(k) of a key the mapping does not hold fail with
\* KeyError, and leave the mapping and the node as they were.
C6_MissingKey ==
    (last.op \in {"get", "delete"} /\ ~DictHas(last.pre, last.key))
        => last.res = "KeyError" /\ MappingUntouched /\ NodeUntouched

\* C6 witness: delete(k) of a missing key on a store whose non-empty mapping
\* is not what the node holds, so that a flush would show.
C6_Witness ==
    /\ last.op = "delete" /\ last.res = "KeyError"
    /\ Len(Now) > 0
    /\ (~hasAttr \/ notes # JsonDumps(Now))

\* C7: a call that fails leaves the mapping and the node as they were
\* before it.
C7_NoPartialFailure ==
    (last.res # "ok") => MappingUntouched /\ NodeUntouched

\* C8: constructing a store or calling reload() over notes that are not empty
\* and do not decode returns normally and leaves the mapping empty.
C8_DecodeFailureNotSurfaced ==
    (last.op \in {"construct", "reload"} /\ last.preHas
        /\ ~IsNullOrEmpty(last.preNotes) /\ ~JsonDecodes(last.preNotes))
        => last.res = "ok" /\ Now = <<>>

\* C8 witness: reload() over such notes by a store that held entries.
C8_Witness ==
    /\ last.op = "reload" /\ last.preHas /\ last.preNotes = CorruptText
    /\ Len(last.pre) > 0

\* C9: set(k, v) of a key the mapping does not hold returns normally, get(k)
\* is then v and every other key keeps its value; and where the node had no
\* attribute and the mapping was empty, the attribute now exists and a store
\* constructed over the node holds exactly {k: v}.
C9_SetAbsentKey ==
    (last.op = "set" /\ ~DictHas(last.pre, last.key))
        => /\ last.res = "ok"
           /\ DictHas(Now, last.key) /\ DictGet(Now, last.key) = last.val
           /\ \A k \in DictKeys(last.pre) : DictHas(Now, k) /\ DictGet(Now, k) = DictGet(last.pre, k)
           /\ (~last.preHas /\ Len(last.pre) = 0)
                => hasAttr /\ DictEq(FreshStore, <<Entry(last.key, last.val)>>)

\* C10: get, contains, len, iteration, keys, values and items leave the
\* attribute's existence, its text, the node's lock and the mapping as they were.
C10_ReadsTouchNothing ==
    (last.op \in Readers) => NodeUntouched /\ MappingUntouched

\* C10 witness: a get that returned a value on a store whose mapping is not
\* what the node holds, so that a write-back would show.
C10_Witness ==
    /\ last.op = "get" /\ last.res = "ok"
    /\ hasAttr /\ notes # JsonDumps(Now)

\* The calls made on a store (the others are the host's).
StoreOps ==
    Mutators \cup Readers
        \cup {"construct", "reload", "invalidate", "ensureNotes", "setBuffer",
              "tryGetBuffer", "buffer"}

\* The attribute came into existence during the last call.
Created == ~last.preHas /\ hasAttr

\* C11, as claimed: construction, reads and reload() never create the
\* attribute, and a call on a store creates it only if it is a set or update
\* that leaves the mapping non-empty, on a node that is not locked.
C11_CreatedOnlyByMutation ==
    (last.op \in StoreOps /\ Created)
        => /\ last.op \in {"set", "update"}
           /\ Len(Now) > 0
           /\ ~last.preLocked

\* C11, amended: construction, reads and reload() never create the attribute;
\* a call on a store creates it only on a node that is not locked, and only
\* if it is ensureNotes(), setBuffer() of a non-empty text, or a set, update,
\* delete or invalidate() with a non-empty mapping to write.
C11_CreatedLazily ==
    (last.op \in StoreOps /\ Created)
        => /\ ~last.preLocked
           /\ \/ last.op = "ensureNotes"
              \/ last.op = "setBuffer" /\ last.ret # <<"empty">>
              \/ last.op \in Mutators \cup {"invalidate"} /\ Len(Now) > 0

\* C11 witness: a set on a node without the attribute created it.
C11_Witness ==
    /\ last.op = "set" /\ Created

\* C12: ensureNotes() returns normally and leaves the mapping and the lock as
\* they were; on a locked node without the attribute it creates nothing, on
\* an unlocked node without the attribute it creates the attribute, empty,
\* and where the attribute exists it changes nothing.
C12_LockRespect ==
    (last.op = "ensureNotes")
        => /\ last.res = "ok" /\ MappingUntouched /\ locked = last.preLocked
           /\ (last.preHas \/ last.preLocked) => NodeUntouched
           /\ (~last.preHas /\ ~last.preLocked) => hasAttr /\ notes = EmptyText

\* C12 witness: ensureNotes() was called on a locked node without the attribute.
C12_Witness ==
    /\ last.op = "ensureNotes" /\ ~last.preHas /\ last.preLocked

\* What a second reload(), made now, would give.
Again == reload(Now, Node, locked)

\* C13: after reload(), a second reload() with nothing done in between
\* returns normally and gives the same mapping and the same node as the first.
C13_ReloadIdempotent ==
    (last.op = "reload")
        => /\ Again.res = "ok"
           /\ Again.props = Now
           /\ Again.node = Node

\* C13 witness: a reload() that replaced a mapping by another with entries
\* and rewrote the notes.
C13_Witness ==
    /\ last.op = "reload"
    /\ Len(Now) > 0 /\ ~DictEq(Now, last.pre)
    /\ notes # last.preNotes

\* C14: reload() when the attribute is absent or holds empty text returns
\* normally, keeps every entry of the mapping, creates no attribute and
\* writes nothing to the node.
C14_ReloadOfNothing ==
    (last.op = "reload" /\ (~last.preHas \/ IsNullOrEmpty(last.preNotes)))
        => last.res = "ok" /\ MappingUntouched /\ NodeUntouched

\* C14 witness: reload() by a store that holds entries, on an unlocked node
\* without the attribute.
C14_Witness ==
    /\ last.op = "reload" /\ ~last.preHas /\ ~last.preLocked
    /\ Len(last.pre) > 0

\* C15: reload() over notes that hold a JSON object returns normally, and the
\* mapping is then what the notes decoded to: entries held only in memory
\* are gone.
C15_ReloadRefreshes ==
    (last.op = "reload" /\ last.preHas /\ JsonDecodes(last.preNotes))
        => last.res = "ok" /\ Now = JsonLoads(last.preNotes)

\* C15 witness: reload() by a store that held a key the notes did not.
C15_Witness ==
    /\ last.op = "reload" /\ last.preHas /\ JsonDecodes(last.preNotes)
    /\ Len(last.preNotes.members) > 0
    /\ \E k \in DictKeys(last.pre) : ~DictHas(JsonLoads(last.preNotes), k)

\* C16: tryGetBuffer() returns normally, with '' where the attribute does not
\* exist and with its text where it does; buffer() fails with mc.getAttr's
\* error where the attribute does not exist and returns its text where it
\* does; neither changes the node or the mapping.
C16_TolerantAndStrictRead ==
    /\ (last.op = "tryGetBuffer")
          => /\ last.res = "ok"
             /\ last.ret = <<IF last.preHas THEN last.preNotes ELSE EmptyText>>
    /\ (last.op = "buffer")
          => IF last.preHas
             THEN last.res = "ok" /\ last.ret = <<last.preNotes>>
             ELSE last.res = "ValueError"
    /\ (last.op \in {"tryGetBuffer", "buffer"}) => NodeUntouched /\ MappingUntouched

\* C16 witness: buffer() failed on a node without the attribute.
C16_Witness ==
    /\ last.op = "buffer" /\ last.res = "ValueError" /\ ~hasAttr

\* The stores other than the one the last call went through.
Others == DOMAIN props \ {last.s}

\* A set, delete or update that returned normally, through one of two stores
\* bound to the node.
WriteThrough ==
    /\ last.op \in Mutators /\ last.res = "ok"
    /\ alive = TwoStores

\* C17, as claimed: after a write through one of two stores over the node the
\* attribute holds exactly that store's mapping, and the other store's mapping
\* in memory is as it was.
C17_WriteOverwritesWholesale ==
    WriteThrough
        => /\ hasAttr /\ notes = JsonDumps(Now)
           /\ \A o \in Others : props[o] = last.preProps[o]

\* C17, amended: after a write through one of two stores over the node that
\* leaves the writer's mapping non-empty, the attribute's text is the
\* serialization of the writer's mapping and every member of it comes from
\* that mapping (nothing the other store persisted is merged in); a write that
\* leaves the writer's mapping empty leaves the node as it was; either way the
\* other store's mapping in memory is as it was.
C17_WriteOverwritesUnlessEmpty ==
    WriteThrough
        => /\ IF Len(Now) = 0
              THEN NodeUntouched
              ELSE /\ hasAttr /\ notes = JsonDumps(Now)
                   /\ \A k \in DictKeys(JsonLoads(notes)) :
                         \E j \in DictKeys(Now) : JsonKey(j) = k
           /\ \A o \in Others : props[o] = last.preProps[o]

\* C17 witness: a write through B replaced notes that held an entry A had
\* persisted and B's mapping does not have; the entry is gone from the notes
\* and still in A's memory.
C17_Witness ==
    /\ WriteThrough /\ last.s = "B" /\ Len(Now) > 0
    /\ last.preHas /\ JsonDecodes(last.preNotes)
    /\ \E k \in DictKeys(props["A"]) :
          /\ DictHas(JsonLoads(last.preNotes), JsonKey(k))
          /\ ~DictHas(JsonLoads(notes), JsonKey(k))
          /\ \A j \in DictKeys(Now) : JsonKey(j) # JsonKey(k)

\* C18: construction and reload() leave the attribute where it is, present or
\* absent, and the lock as it is; where the text decoded, the text afterwards
\* decodes to the same mapping; where the text is empty, is no JSON or decodes
\* to an empty mapping, the text is not written at all.
C18_ReloadKeepsPersisted ==
    (last.op \in {"construct", "reload"})
        => /\ last.res = "ok"
           /\ hasAttr = last.preHas
           /\ locked = last.preLocked
           /\ (last.preHas /\ JsonDecodes(last.preNotes))
                 => JsonDecodes(notes) /\ JsonLoads(notes) = JsonLoads(last.preNotes)
           /\ (\/ ~last.preHas
               \/ ~JsonDecodes(last.preNotes)
               \/ Len(JsonLoads(last.preNotes)) = 0)
                 => notes = last.preNotes

\* C18 witness: construction or reload() wrote the re-serialized mapping back
\* over notes of a different text (a name written twice in the notes is
\* written once in the dump) and the decoded mapping is the same.
C18_Witness ==
    /\ last.op \in {"construct", "reload"}
    /\ last.preHas /\ JsonDecodes(last.preNotes)
    /\ Len(JsonLoads(last.preNotes)) > 0
    /\ notes # last.preNotes
    /\ JsonLoads(notes) = JsonLoads(last.preNotes)

====
